---- MODULE Spec2Model ----
(***************************************************************************)
(* fs::VolumeManager of the LemonOS kernel (src/unnamed/part_001): the     *)
(* registry of mounted filesystem volumes, its two counters, the system    *)
(* volume slot and the mount / unmount / find operations.                  *)
(*                                                                         *)
(* Every public operation is one action.  The body of an operation is an   *)
(* operator on the registry record `Reg' that returns the registry after   *)
(* the call, the returned error code, the volume the call produced and the *)
(* list of calls it made to its collaborators (device, identification      *)
(* service, driver, log sink), so that an operation that calls another     *)
(* operation (MountSystemVolume -> Mount -> RegisterVolume) is still one   *)
(* step.                                                                   *)
(***************************************************************************)
EXTENDS Integers, Sequences, FiniteSets, TLC

\* ------------------------------------------------------------------ bounds
\* Number of FsVolume objects that are ever constructed.
MaxVolumes == 2
\* Number of RegisterVolume executions (nextVolumeID goes up to this + 1).
MaxRegistrations == 3
\* Number of synthesized names handed out (nextVolumeName goes up to this).
MaxSynthetic == 2
\* Number of entries of the /dev directory read by the boot scan.
MaxDevEntries == 3
\* Number of WriteN calls on the log.
MaxWrites == 3

\* --------------------------------------------------------------- constants
NULL == 0

\* A `const char* name' argument: <<>> is the null pointer, <<s>> a string.
NoName == <<>>
Named(s) == <<s>>

\* Mount names callers supply.
Names == {"x"}
\* Names callers look up or unmount: that one, the name of the system
\* volume and the first two synthesized names.
LookupNames == Names \cup {"system", "volume0", "volume1"}

\* Error codes of Fs/VolumeManager.h; 0 is success.
VolumeErrorNone == "0"
VolumeErrorMisc == "VolumeErrorMisc"
VolumeErrorNotDevice == "VolumeErrorNotDevice"
VolumeErrorInvalidFilesystem == "VolumeErrorInvalidFilesystem"
VolumeErrorVolumeNotFound == "VolumeErrorVolumeNotFound"
\* Not a return value: the call ended in a failed assert (process aborted).
AssertionFailed == "assert"

\* ------------------------------------------------------------- environment
\* Filesystem drivers registered with the identification service, in
\* registration order.
Drivers == <<"ext2", "fat32">>
NoDriver == "none"
DriverSet == {Drivers[i] : i \in 1..Len(Drivers)}

\* A node handed to Mount.  isChar: IsCharDevice(); fs: the filesystem on
\* it (NoDriver: none that a driver recognises); yields: what the driver's
\* Mount makes of it: no volume, a volume without a mount point node, or a
\* volume with a mount point node.  The first is not a device: a regular
\* file that holds a filesystem image.
Devices ==
    {[isChar |-> FALSE, fs |-> "ext2", yields |-> "node"],
     [isChar |-> TRUE, fs |-> NoDriver, yields |-> "none"],
     [isChar |-> TRUE, fs |-> "ext2", yields |-> "none"],
     [isChar |-> TRUE, fs |-> "ext2", yields |-> "node"],
     [isChar |-> TRUE, fs |-> "fat32", yields |-> "bare"]}

\* An entry of /dev whose name FindDir does not resolve to a node.
NoNode == [isChar |-> FALSE, fs |-> NoDriver, yields |-> "unresolved"]

\* The entries of /dev the boot scan is run on: one representative of each
\* way an entry can go (no node, not a device, not identified, mount fails,
\* mount succeeds).
DevEntries ==
    {NoNode,
     [isChar |-> FALSE, fs |-> "ext2", yields |-> "node"],
     [isChar |-> TRUE, fs |-> NoDriver, yields |-> "none"],
     [isChar |-> TRUE, fs |-> "ext2", yields |-> "none"],
     [isChar |-> TRUE, fs |-> "ext2", yields |-> "node"]}

SeqsUpTo(S, n) == UNION {[1..k -> S] : k \in 0..n}
DevDirs == SeqsUpTo(DevEntries, MaxDevEntries)

\* The execution contexts that call into the registry at the same time.
Contexts == {"a", "b"}

\* A context that is not inside RegisterVolume.
NotInRegister == [pc |-> "idle", volume |-> NULL, id |-> 0, list |-> <<>>,
                  done |-> {}]

\* The kernel log buffer before EnableBuffer().  size_t values are kept as
\* integers; a negative value -k stands for the wrapped value 2^64 - k.
\* copyAt and copyLen are the offset and length of the last copy of a
\* message into the buffer; fault: a copy went outside the allocation, after
\* which nothing is known of the kernel's state.
LogInitial == [enabled |-> FALSE, allocated |-> FALSE, size |-> 0, pos |-> 0,
               copyAt |-> 0, copyLen |-> 0, writes |-> 0, fault |-> FALSE]

\* ------------------------------------------------------------------- state
VARIABLES
    heap,            \* the FsVolume objects constructed so far; a volume
                     \* pointer is an index into heap, NULL is 0
    volumes,         \* List<FsVolume*>* volumes
    nextVolumeID,    \* int nextVolumeID
    nextVolumeName,  \* int nextVolumeName
    systemVolume,    \* FsVolume* systemVolume
    aborted,         \* a failed assert has terminated the process
    call,            \* the last call: operation, name argument, returned
                     \* code, the volume it produced or found and the
                     \* number of ReadDir calls it made
    idLog,           \* history: the IDs passed to SetVolumeID, in order
    synthLog,        \* history: the names passed to driver->Mount by
                     \* the Mount calls made without a name, in order
    ctx,             \* per execution context inside RegisterVolume: where
                     \* it is, its volume, the values it has read, and the
                     \* volumes whose registration it has completed
    logBuf           \* the kernel log buffer of namespace Log: enabled flag,
                     \* allocation, size, write position, and where the last
                     \* WriteN copied its bytes

vars == <<heap, volumes, nextVolumeID, nextVolumeName, systemVolume,
          aborted, call, idLog, synthLog, ctx, logBuf>>

\* The registry as one value, for the operators below.
Reg == [heap |-> heap, volumes |-> volumes, nextVolumeID |-> nextVolumeID,
        nextVolumeName |-> nextVolumeName, systemVolume |-> systemVolume]

\* The outcome of an operation.
Result(s, ret, vol, ev) == [s |-> s, ret |-> ret, vol |-> vol, ev |-> ev]

\* ----------------------------------------------------------------- helpers
Digit == <<"0", "1", "2", "3", "4", "5", "6", "7", "8", "9">>

\* itoa(n, buf, 10) for n >= 0: the decimal digits, most significant first.
RECURSIVE itoa(_)
itoa(n) == IF n < 10 THEN Digit[n + 1]
           ELSE itoa(n \div 10) \o Digit[(n % 10) + 1]

\* strcmp(a, b) == 0
StrEq(a, b) == a = b

\* List::remove(it): the list without its i-th entry, order kept.
RemoveAt(list, i) ==
    [k \in 1..(Len(list) - 1) |-> IF k < i THEN list[k] ELSE list[k + 1]]

\* driver->Identify(device)
Identify(driver, device) == device.fs = driver

\* fs::IdentifyFilesystem(device): the first registered driver that
\* identifies the device, or NoDriver.
RECURSIVE IdentifyFrom(_, _)
IdentifyFrom(device, i) ==
    IF i > Len(Drivers) THEN NoDriver
    ELSE IF Identify(Drivers[i], device) THEN Drivers[i]
    ELSE IdentifyFrom(device, i + 1)

IdentifyFilesystem(device) == IdentifyFrom(device, 1)

\* driver->Mount(device, name): a new volume anchored at name, or none.
\* The volume's ID is unset (0) until it is registered.
DriverMount(s, device, name) ==
    IF device.yields \in {"bare", "node"}
    THEN [s |-> [s EXCEPT !.heap = Append(@,
                    [name |-> name, volumeID |-> 0,
                     mountPoint |-> IF device.yields = "node"
                                    THEN "orphan" ELSE "null"])],
          vol |-> Len(s.heap) + 1]
    ELSE [s |-> s, vol |-> NULL]

\* -------------------------------------------------------------- operations
\* Mutant: the loop does not stop at the first match.
RECURSIVE FindVolumeLast(_, _, _)
FindVolumeLast(s, name, i) ==
    IF i > Len(s.volumes) THEN NULL
    ELSE IF FindVolumeLast(s, name, i + 1) # NULL
         THEN FindVolumeLast(s, name, i + 1)
    ELSE IF StrEq(s.heap[s.volumes[i]].name, name) THEN s.volumes[i]
    ELSE NULL

\* FindVolume: the loop over *volumes from position i on.
RECURSIVE FindVolumeFrom(_, _, _)
FindVolumeFrom(s, name, i) ==
    IF i > Len(s.volumes) THEN NULL
    ELSE IF StrEq(s.heap[s.volumes[i]].name, name) THEN s.volumes[i]
    ELSE FindVolumeFrom(s, name, i + 1)

FindVolume(s, name) == FindVolumeFrom(s, name, 1)

\* Mutant: the ID is taken from the size of the list, not from the counter.
RegisterVolumeIdFromSize(s, volume) ==
    Result([s EXCEPT
              !.heap[volume].volumeID = Len(s.volumes) + 1,
              !.heap[volume].mountPoint = IF @ = "null" THEN "null" ELSE "root",
              !.nextVolumeID = @ + 1,
              !.volumes = Append(@, volume)],
           VolumeErrorNone, volume,
           <<<<"SetVolumeID", volume, Len(s.volumes) + 1>>>>)

\* Mutant: the volume is added at the front of the list.
RegisterVolumeAddFront(s, volume) ==
    Result([s EXCEPT
              !.heap[volume].volumeID = s.nextVolumeID,
              !.heap[volume].mountPoint = IF @ = "null" THEN "null" ELSE "root",
              !.nextVolumeID = @ + 1,
              !.volumes = <<volume>> \o @],
           VolumeErrorNone, volume,
           <<<<"SetVolumeID", volume, s.nextVolumeID>>>>)

\* Mutant: SetVolumeID is not called.
RegisterVolumeNoId(s, volume) ==
    Result([s EXCEPT
              !.heap[volume].mountPoint = IF @ = "null" THEN "null" ELSE "root",
              !.nextVolumeID = @ + 1,
              !.volumes = Append(@, volume)],
           VolumeErrorNone, volume, <<>>)

\* RegisterVolume(volume)
RegisterVolume(s, volume) ==
    Result([s EXCEPT
              !.heap[volume].volumeID = s.nextVolumeID,
              !.heap[volume].mountPoint = IF @ = "null" THEN "null" ELSE "root",
              !.nextVolumeID = @ + 1,
              !.volumes = Append(@, volume)],
           VolumeErrorNone, volume,
           <<<<"SetVolumeID", volume, s.nextVolumeID>>>>)

\* Mutant: the entry is matched by mount name, not by identity.
RECURSIVE UnregisterVolumeByName(_, _, _)
UnregisterVolumeByName(s, volume, i) ==
    IF i > Len(s.volumes) THEN Result(s, VolumeErrorVolumeNotFound, NULL, <<>>)
    ELSE IF StrEq(s.heap[s.volumes[i]].name, s.heap[volume].name)
         THEN Result([s EXCEPT !.volumes = RemoveAt(@, i)],
                     VolumeErrorNone, volume, <<>>)
    ELSE UnregisterVolumeByName(s, volume, i + 1)

\* Mutant: the entry is found but not removed.
RECURSIVE UnregisterVolumeKeep(_, _, _)
UnregisterVolumeKeep(s, volume, i) ==
    IF i > Len(s.volumes) THEN Result(s, VolumeErrorVolumeNotFound, NULL, <<>>)
    ELSE IF s.volumes[i] = volume
         THEN Result(s, VolumeErrorNone, volume, <<>>)
    ELSE UnregisterVolumeKeep(s, volume, i + 1)

\* UnregisterVolume: the loop over *volumes from position i on.
RECURSIVE UnregisterVolumeFrom(_, _, _)
UnregisterVolumeFrom(s, volume, i) ==
    IF i > Len(s.volumes) THEN Result(s, VolumeErrorVolumeNotFound, NULL, <<>>)
    ELSE IF s.volumes[i] = volume
         THEN Result([s EXCEPT !.volumes = RemoveAt(@, i)],
                     VolumeErrorNone, volume, <<>>)
    ELSE UnregisterVolumeFrom(s, volume, i + 1)

UnregisterVolume(s, volume) == UnregisterVolumeFrom(s, volume, 1)

\* Mutant: the loop does not return after the first match, every volume
\* of that name is removed.
RECURSIVE UnmountAllMatches(_, _, _)
UnmountAllMatches(s, name, i) ==
    IF i > Len(s.volumes) THEN Result(s, VolumeErrorVolumeNotFound, NULL, <<>>)
    ELSE IF StrEq(s.heap[s.volumes[i]].name, name)
         THEN Result(UnmountAllMatches(
                        UnregisterVolume(s, s.volumes[i]).s, name, i).s,
                     VolumeErrorNone, s.volumes[i], <<>>)
    ELSE UnmountAllMatches(s, name, i + 1)

\* Mutant: strcmp's result is not negated, the first volume with another
\* name is removed.
RECURSIVE UnmountOther(_, _, _)
UnmountOther(s, name, i) ==
    IF i > Len(s.volumes) THEN Result(s, VolumeErrorVolumeNotFound, NULL, <<>>)
    ELSE IF ~StrEq(s.heap[s.volumes[i]].name, name)
         THEN Result(UnregisterVolume(s, s.volumes[i]).s,
                     VolumeErrorNone, s.volumes[i], <<>>)
    ELSE UnmountOther(s, name, i + 1)

\* Unmount: the loop over *volumes from position i on.
RECURSIVE UnmountFrom(_, _, _)
UnmountFrom(s, name, i) ==
    IF i > Len(s.volumes) THEN Result(s, VolumeErrorVolumeNotFound, NULL, <<>>)
    ELSE IF StrEq(s.heap[s.volumes[i]].name, name)
         THEN Result(UnregisterVolume(s, s.volumes[i]).s,
                     VolumeErrorNone, s.volumes[i], <<>>)
    ELSE UnmountFrom(s, name, i + 1)

Unmount(s, name) == UnmountFrom(s, name, 1)

\* Mutant: the suffix counter is advanced for a supplied name as well.
ResolveNameAlwaysCount(s, name) ==
    IF name # NoName
    THEN [name |-> name[1], nextVolumeName |-> s.nextVolumeName + 1]
    ELSE [name |-> "volume" \o itoa(s.nextVolumeName),
          nextVolumeName |-> s.nextVolumeName + 1]

\* Mutant: the suffix counter is read but not advanced.
ResolveNameNoIncrement(s, name) ==
    IF name # NoName
    THEN [name |-> name[1], nextVolumeName |-> s.nextVolumeName]
    ELSE [name |-> "volume" \o itoa(s.nextVolumeName),
          nextVolumeName |-> s.nextVolumeName]

\* The name Mount passes to the driver and the suffix counter afterwards:
\* the caller's name, or "volume" followed by nextVolumeName++.
ResolveName(s, name) ==
    IF name # NoName
    THEN [name |-> name[1], nextVolumeName |-> s.nextVolumeName]
    ELSE [name |-> "volume" \o itoa(s.nextVolumeName),
          nextVolumeName |-> s.nextVolumeName + 1]

\* Mutant: the assertion on driver->Identify is compiled out.
MountWithNoAssert(s, device, driver, name) ==
    IF ~device.isChar
    THEN Result(s, VolumeErrorNotDevice, NULL,
                <<<<"IsCharDevice">>, <<"Log::Error">>>>)
    ELSE
      LET rn == ResolveName(s, name)
          s1 == [s EXCEPT !.nextVolumeName = rn.nextVolumeName]
          dm == DriverMount(s1, device, rn.name)
          ev == <<<<"IsCharDevice">>, <<"driver.Mount", driver, rn.name>>>>
      IN  IF dm.vol = NULL
          THEN Result(s1, VolumeErrorMisc, NULL, Append(ev, <<"Log::Error">>))
          ELSE LET r == RegisterVolume(dm.s, dm.vol)
               IN  Result(r.s, VolumeErrorNone, dm.vol, ev \o r.ev)

\* Mount(device, driver, name)
MountWith(s, device, driver, name) ==
    IF ~device.isChar
    THEN Result(s, VolumeErrorNotDevice, NULL,
                <<<<"IsCharDevice">>, <<"Log::Error">>>>)
    ELSE IF ~Identify(driver, device)
    THEN Result(s, AssertionFailed, NULL,
                <<<<"IsCharDevice">>, <<"Identify", driver>>>>)
    ELSE
      LET rn == ResolveName(s, name)
          s1 == [s EXCEPT !.nextVolumeName = rn.nextVolumeName]
          dm == DriverMount(s1, device, rn.name)
          ev == <<<<"IsCharDevice">>, <<"Identify", driver>>,
                  <<"driver.Mount", driver, rn.name>>>>
      IN  IF dm.vol = NULL
          THEN Result(s1, VolumeErrorMisc, NULL, Append(ev, <<"Log::Error">>))
          ELSE LET r == RegisterVolume(dm.s, dm.vol)
               IN  Result(r.s, VolumeErrorNone, dm.vol, ev \o r.ev)

\* Mutant: the node is not checked to be a character device.
MountNoDeviceCheck(s, device, name) ==
    IF IdentifyFilesystem(device) = NoDriver
    THEN Result(s, VolumeErrorInvalidFilesystem, NULL,
                <<<<"IdentifyFilesystem">>, <<"Log::Error">>>>)
    ELSE LET r == MountWith(s, device, IdentifyFilesystem(device), name)
         IN  Result(r.s, r.ret, r.vol, <<<<"IdentifyFilesystem">>>> \o r.ev)

\* Mutant: the name is resolved before the filesystem is identified.
MountEagerName(s, device, name) ==
    LET s1 == [s EXCEPT !.nextVolumeName = ResolveName(s, name).nextVolumeName]
    IN  IF ~device.isChar
        THEN Result(s, VolumeErrorNotDevice, NULL,
                    <<<<"IsCharDevice">>, <<"Log::Error">>>>)
        ELSE IF IdentifyFilesystem(device) = NoDriver
        THEN Result(s1, VolumeErrorInvalidFilesystem, NULL,
                    <<<<"IsCharDevice">>, <<"IdentifyFilesystem">>,
                      <<"Log::Error">>>>)
        ELSE LET r == MountWith(s, device, IdentifyFilesystem(device), name)
             IN  Result(r.s, r.ret, r.vol,
                        <<<<"IsCharDevice">>, <<"IdentifyFilesystem">>>> \o r.ev)

\* Mount(device, name)
Mount(s, device, name) ==
    IF ~device.isChar
    THEN Result(s, VolumeErrorNotDevice, NULL,
                <<<<"IsCharDevice">>, <<"Log::Error">>>>)
    ELSE IF IdentifyFilesystem(device) = NoDriver
    THEN Result(s, VolumeErrorInvalidFilesystem, NULL,
                <<<<"IsCharDevice">>, <<"IdentifyFilesystem">>,
                  <<"Log::Error">>>>)
    ELSE LET r == MountWith(s, device, IdentifyFilesystem(device), name)
         IN  Result(r.s, r.ret, r.vol,
                    <<<<"IsCharDevice">>, <<"IdentifyFilesystem">>>> \o r.ev)

\* Mutant: the scan does not return after a successful mount.
RECURSIVE MountSystemVolumeNoStop(_, _, _)
MountSystemVolumeNoStop(s, dev, i) ==
    IF i >= Len(dev)
    THEN Result(s, VolumeErrorNone, NULL, <<<<"ReadDir", i>>>>)
    ELSE
      LET ent == dev[i + 1]
          probe == <<<<"ReadDir", i>>, <<"FindDir", i>>>>
          rest(s2, vol, ev) ==
              LET r == MountSystemVolumeNoStop(s2, dev, i + 1)
              IN  Result(r.s, r.ret, IF vol # NULL THEN vol ELSE r.vol,
                         ev \o r.ev)
      IN  IF ent = NoNode THEN rest(s, NULL, probe)
          ELSE IF ~ent.isChar
          THEN rest(s, NULL, Append(probe, <<"IsCharDevice">>))
          ELSE IF IdentifyFilesystem(ent) = NoDriver
          THEN rest(s, NULL,
                    probe \o <<<<"IsCharDevice">>, <<"IdentifyFilesystem">>>>)
          ELSE
            LET m == MountWith(s, ent, IdentifyFilesystem(ent), Named("system"))
                ev == probe \o <<<<"IsCharDevice">>, <<"IdentifyFilesystem">>>>
                      \o m.ev
            IN  IF m.ret = AssertionFailed
                THEN Result(m.s, AssertionFailed, NULL, ev)
                ELSE rest(m.s, m.vol, ev)

\* Mutant: a scan that mounts nothing ends in a failed assert.
RECURSIVE MountSystemVolumeMustFind(_, _, _)
MountSystemVolumeMustFind(s, dev, i) ==
    IF i >= Len(dev)
    THEN Result(s, AssertionFailed, NULL, <<<<"ReadDir", i>>>>)
    ELSE
      LET ent == dev[i + 1]
          probe == <<<<"ReadDir", i>>, <<"FindDir", i>>>>
          rest(s2, ev) ==
              LET r == MountSystemVolumeMustFind(s2, dev, i + 1)
              IN  Result(r.s, r.ret, r.vol, ev \o r.ev)
      IN  IF ent = NoNode THEN rest(s, probe)
          ELSE IF ~ent.isChar
          THEN rest(s, Append(probe, <<"IsCharDevice">>))
          ELSE IF IdentifyFilesystem(ent) = NoDriver
          THEN rest(s, probe \o <<<<"IsCharDevice">>, <<"IdentifyFilesystem">>>>)
          ELSE
            LET m == MountWith(s, ent, IdentifyFilesystem(ent), Named("system"))
                ev == probe \o <<<<"IsCharDevice">>, <<"IdentifyFilesystem">>>>
                      \o m.ev
            IN  IF m.ret = VolumeErrorNone
                THEN Result(m.s, VolumeErrorNone, m.vol, ev)
                ELSE IF m.ret = AssertionFailed
                THEN Result(m.s, AssertionFailed, NULL, ev)
                ELSE rest(m.s, ev)

\* MountSystemVolume: the while loop over the entries of /dev, from the
\* (0-based) index i on.  ReadDir fails at the end of the directory.
RECURSIVE MountSystemVolumeFrom(_, _, _)
MountSystemVolumeFrom(s, dev, i) ==
    IF i >= Len(dev)
    THEN Result(s, VolumeErrorNone, NULL, <<<<"ReadDir", i>>>>)
    ELSE
      LET ent == dev[i + 1]
          probe == <<<<"ReadDir", i>>, <<"FindDir", i>>>>
          rest(s2, ev) ==
              LET r == MountSystemVolumeFrom(s2, dev, i + 1)
              IN  Result(r.s, r.ret, r.vol, ev \o r.ev)
      IN  IF ent = NoNode THEN rest(s, probe)
          ELSE IF ~ent.isChar
          THEN rest(s, Append(probe, <<"IsCharDevice">>))
          ELSE IF IdentifyFilesystem(ent) = NoDriver
          THEN rest(s, probe \o <<<<"IsCharDevice">>, <<"IdentifyFilesystem">>>>)
          ELSE
            LET m == MountWith(s, ent, IdentifyFilesystem(ent), Named("system"))
                ev == probe \o <<<<"IsCharDevice">>, <<"IdentifyFilesystem">>>>
                      \o m.ev
            IN  IF m.ret = VolumeErrorNone
                THEN Result(m.s, VolumeErrorNone, m.vol, ev)
                ELSE IF m.ret = AssertionFailed
                THEN Result(m.s, AssertionFailed, NULL, ev)
                ELSE rest(m.s, ev)

MountSystemVolume(s, dev) == MountSystemVolumeFrom(s, dev, 0)

\* SystemVolume()
SystemVolume(s) ==
    IF s.systemVolume = NULL
    THEN Result(s, AssertionFailed, NULL, <<>>)
    ELSE Result(s, VolumeErrorNone, s.systemVolume, <<>>)

\* ----------------------------------------------------------------- actions
InBounds(s) ==
    /\ Len(s.heap) <= MaxVolumes
    /\ s.nextVolumeID <= MaxRegistrations + 1
    /\ s.nextVolumeName <= MaxSynthetic

\* The events of one kind in an event list.
RECURSIVE SelectEv(_, _)
SelectEv(ev, kind) ==
    IF ev = <<>> THEN <<>>
    ELSE IF Head(ev)[1] = kind THEN <<Head(ev)>> \o SelectEv(Tail(ev), kind)
    ELSE SelectEv(Tail(ev), kind)

\* The state after a call with outcome r.
Commit(op, name, r) ==
    /\ InBounds(r.s)
    /\ heap' = r.s.heap
    /\ volumes' = r.s.volumes
    /\ nextVolumeID' = r.s.nextVolumeID
    /\ nextVolumeName' = r.s.nextVolumeName
    /\ systemVolume' = r.s.systemVolume
    /\ aborted' = (r.ret = AssertionFailed)
    /\ call' = [op |-> op, name |-> name, ret |-> r.ret, vol |-> r.vol,
                reads |-> Len(SelectEv(r.ev, "ReadDir"))]
    /\ idLog' = idLog \o [k \in 1..Len(SelectEv(r.ev, "SetVolumeID")) |->
                            SelectEv(r.ev, "SetVolumeID")[k][3]]
    /\ synthLog' = IF op \in {"Mount", "MountWith"} /\ name = NoName
                   THEN synthLog \o
                        [k \in 1..Len(SelectEv(r.ev, "driver.Mount")) |->
                            SelectEv(r.ev, "driver.Mount")[k][3]]
                   ELSE synthLog
    /\ ctx' = ctx
    /\ logBuf' = logBuf

NameArgs == {NoName} \cup {Named(n) : n \in Names}

MountCall ==
    /\ ~aborted
    /\ \E device \in Devices, name \in NameArgs :
          Commit("Mount", name, Mount(Reg, device, name))

MountWithCall ==
    /\ ~aborted
    /\ \E device \in Devices, driver \in DriverSet, name \in NameArgs :
          Commit("MountWith", name, MountWith(Reg, device, driver, name))

UnmountCall ==
    /\ ~aborted
    /\ \E n \in LookupNames :
          Commit("Unmount", Named(n), Unmount(Reg, n))

\* RegisterVolume called by the owner of a volume: a volume constructed
\* before (registered or not), or one constructed for the call.
RegisterVolumeCall ==
    /\ ~aborted
    /\ \/ \E v \in 1..Len(heap) :
             Commit("RegisterVolume", NoName, RegisterVolume(Reg, v))
       \/ \E n \in Names, mp \in {"null", "orphan"} :
             Commit("RegisterVolume", NoName,
                    RegisterVolume(
                       [Reg EXCEPT !.heap = Append(@,
                           [name |-> n, volumeID |-> 0, mountPoint |-> mp])],
                       Len(heap) + 1))

UnregisterVolumeCall ==
    /\ ~aborted
    /\ \E v \in 1..Len(heap) :
          Commit("UnregisterVolume", NoName, UnregisterVolume(Reg, v))

FindVolumeCall ==
    /\ ~aborted
    /\ \E n \in LookupNames :
          Commit("FindVolume", Named(n),
                 Result(Reg, VolumeErrorNone, FindVolume(Reg, n), <<>>))

MountSystemVolumeCall ==
    /\ ~aborted
    /\ \E dev \in DevDirs :
          Commit("MountSystemVolume", NoName, MountSystemVolume(Reg, dev))

SystemVolumeCall ==
    /\ ~aborted
    /\ Commit("SystemVolume", NoName, SystemVolume(Reg))

\* The state after Initialize().
Init ==
    /\ heap = <<>>
    /\ volumes = <<>>
    /\ nextVolumeID = 1
    /\ nextVolumeName = 0
    /\ systemVolume = NULL
    /\ aborted = FALSE
    /\ call = [op |-> "Initialize", name |-> NoName, ret |-> VolumeErrorNone,
               vol |-> NULL, reads |-> 0]
    /\ idLog = <<>>
    /\ synthLog = <<>>
    /\ ctx = [t \in Contexts |-> NotInRegister]
    /\ logBuf = LogInitial

Next ==
    \/ MountCall
    \/ MountWithCall
    \/ UnmountCall
    \/ RegisterVolumeCall
    \/ UnregisterVolumeCall
    \/ FindVolumeCall
    \/ SystemVolumeCall

Spec == Init /\ [][Next]_vars

\* Mounting and unmounting only: every volume comes from a driver and is
\* registered once, by the Mount that made it.
NextMount ==
    \/ MountCall
    \/ MountWithCall
    \/ UnmountCall
    \/ UnregisterVolumeCall

MountSpec == Init /\ [][NextMount]_vars

\* Boot: the kernel scans /dev for the system volume and uses the result.
NextBoot ==
    \/ MountSystemVolumeCall
    \/ SystemVolumeCall
    \/ FindVolumeCall
    \/ UnmountCall
    \/ UnregisterVolumeCall

BootSpec == Init /\ [][NextBoot]_vars

\* ------------------------------------------------------------ concurrency
\* RegisterVolume run by several contexts at once.  volumeManagerLock is
\* never acquired, so the reads and writes of nextVolumeID and of the list
\* interleave freely: nextVolumeID++ is a load and a store, add_back reads
\* the list and writes it back with the new entry.

\* A context enters RegisterVolume with a volume of its own.
RegisterEnter(t) ==
    /\ ctx[t].pc = "idle"
    /\ Len(heap) < MaxVolumes
    /\ \E n \in Names, mp \in {"null", "orphan"} :
          heap' = Append(heap, [name |-> n, volumeID |-> 0, mountPoint |-> mp])
    /\ ctx' = [ctx EXCEPT ![t].pc = "load", ![t].volume = Len(heap) + 1]
    /\ UNCHANGED <<volumes, nextVolumeID, nextVolumeName, systemVolume,
                   aborted, call, idLog, synthLog, logBuf>>

\* nextVolumeID++: the load.
RegisterLoadID(t) ==
    /\ ctx[t].pc = "load"
    /\ ctx' = [ctx EXCEPT ![t].pc = "store", ![t].id = nextVolumeID]
    /\ UNCHANGED <<heap, volumes, nextVolumeID, nextVolumeName, systemVolume,
                   aborted, call, idLog, synthLog, logBuf>>

\* nextVolumeID++: the store.
RegisterStoreID(t) ==
    /\ ctx[t].pc = "store"
    /\ nextVolumeID' = ctx[t].id + 1
    /\ ctx' = [ctx EXCEPT ![t].pc = "setid"]
    /\ UNCHANGED <<heap, volumes, nextVolumeName, systemVolume,
                   aborted, call, idLog, synthLog, logBuf>>

\* volume->SetVolumeID(...) with the value loaded.
RegisterSetID(t) ==
    /\ ctx[t].pc = "setid"
    /\ heap' = [heap EXCEPT ![ctx[t].volume].volumeID = ctx[t].id]
    /\ idLog' = Append(idLog, ctx[t].id)
    /\ ctx' = [ctx EXCEPT ![t].pc = "link"]
    /\ UNCHANGED <<volumes, nextVolumeID, nextVolumeName, systemVolume,
                   aborted, call, synthLog, logBuf>>

\* if (volume->mountPoint) volume->mountPoint->parent = fs::GetRoot();
RegisterLink(t) ==
    /\ ctx[t].pc = "link"
    /\ heap' = [heap EXCEPT ![ctx[t].volume].mountPoint =
                                IF @ = "null" THEN "null" ELSE "root"]
    /\ ctx' = [ctx EXCEPT ![t].pc = "read"]
    /\ UNCHANGED <<volumes, nextVolumeID, nextVolumeName, systemVolume,
                   aborted, call, idLog, synthLog, logBuf>>

\* volumes->add_back(volume): the list is read.
RegisterReadList(t) ==
    /\ ctx[t].pc = "read"
    /\ ctx' = [ctx EXCEPT ![t].pc = "append", ![t].list = volumes]
    /\ UNCHANGED <<heap, volumes, nextVolumeID, nextVolumeName, systemVolume,
                   aborted, call, idLog, synthLog, logBuf>>

\* volumes->add_back(volume): the list is written with the entry added,
\* and RegisterVolume returns.
RegisterAppend(t) ==
    /\ ctx[t].pc = "append"
    /\ volumes' = Append(ctx[t].list, ctx[t].volume)
    /\ ctx' = [ctx EXCEPT ![t] = [NotInRegister EXCEPT
                                    !.done = ctx[t].done \cup {ctx[t].volume}]]
    /\ UNCHANGED <<heap, nextVolumeID, nextVolumeName, systemVolume,
                   aborted, call, idLog, synthLog, logBuf>>

NextConcurrent ==
    \E t \in Contexts :
        \/ RegisterEnter(t)
        \/ RegisterLoadID(t)
        \/ RegisterStoreID(t)
        \/ RegisterSetID(t)
        \/ RegisterLink(t)
        \/ RegisterReadList(t)
        \/ RegisterAppend(t)

ConcurrentSpec == Init /\ [][NextConcurrent]_vars

\* --------------------------------------------------------------- log buffer
\* The log buffer of src/unnamed/part_000 (namespace Log).
logBufferMaxSize == 1048576
LogBufferInitialSize == 4096
LogBufferGrowth == 4096

\* The lengths WriteN is called with: around the initial size, the growth
\* step and the maximum size.
WriteLengths == {0, 1, 4095, 4096, 4097, 8192, 1048576, 1048577}

\* EnableBuffer()
EnableBuffer(b) ==
    IF ~b.allocated
    THEN [b EXCEPT !.size = LogBufferInitialSize, !.allocated = TRUE,
                   !.pos = 0, !.enabled = TRUE]
    ELSE [b EXCEPT !.enabled = TRUE]

\* DisableBuffer()
DisableBuffer(b) == [b EXCEPT !.enabled = FALSE]

\* WriteN(str, n), interrupts: the value of CheckInterrupts().
WriteN(b, n0, interrupts) ==
    IF ~b.enabled THEN b
    ELSE
      LET n1 == IF n0 >= logBufferMaxSize
                THEN n0 - (n0 - logBufferMaxSize) ELSE n0
          full == n1 + b.pos >= b.size
          n == IF full /\ n1 > logBufferMaxSize THEN logBufferMaxSize ELSE n1
          drop == full /\ (n + b.pos > logBufferMaxSize \/ ~interrupts)
          discard == (n + b.pos) - b.size
          pos1 == IF drop THEN b.pos - discard ELSE b.pos
          size1 == IF full /\ ~drop THEN b.size + LogBufferGrowth ELSE b.size
      IN  [b EXCEPT !.size = size1,
                    !.copyAt = pos1,
                    !.copyLen = n,
                    !.pos = pos1 + n,
                    !.fault = pos1 < 0 \/ pos1 + n > size1]

EnableBufferCall ==
    /\ ~logBuf.fault
    /\ logBuf' = EnableBuffer(logBuf)
    /\ UNCHANGED <<heap, volumes, nextVolumeID, nextVolumeName, systemVolume,
                   aborted, call, idLog, synthLog, ctx>>

DisableBufferCall ==
    /\ ~logBuf.fault
    /\ logBuf' = DisableBuffer(logBuf)
    /\ UNCHANGED <<heap, volumes, nextVolumeID, nextVolumeName, systemVolume,
                   aborted, call, idLog, synthLog, ctx>>

WriteNCall ==
    /\ ~logBuf.fault
    /\ logBuf.writes < MaxWrites
    /\ \E n \in WriteLengths, interrupts \in BOOLEAN :
          logBuf' = [WriteN(logBuf, n, interrupts) EXCEPT !.writes = @ + 1]
    /\ UNCHANGED <<heap, volumes, nextVolumeID, nextVolumeName, systemVolume,
                   aborted, call, idLog, synthLog, ctx>>

NextLog ==
    \/ EnableBufferCall
    \/ DisableBufferCall
    \/ WriteNCall

LogSpec == Init /\ [][NextLog]_vars

\* ------------------------------------------------------------------ claims
\* The registry after the step.
RegNext == [heap |-> heap', volumes |-> volumes',
            nextVolumeID |-> nextVolumeID',
            nextVolumeName |-> nextVolumeName',
            systemVolume |-> systemVolume']

\* The positions of the registry whose volume is mounted under name n.
Matches(n) == {i \in 1..Len(volumes) : heap[volumes[i]].name = n}

Registered(v) == \E i \in 1..Len(volumes) : volumes[i] = v

MountOps == {"Mount", "MountWith"}

\* The calls an operation made to the identification service or a driver.
Consulted(ev) ==
    {k \in 1..Len(ev) :
        ev[k][1] \in {"IdentifyFilesystem", "Identify", "driver.Mount"}}

\* C1: the k-th execution of RegisterVolume assigns ID k, whatever
\* unregistrations and failed mounts happen in between: the IDs handed out
\* are 1..N in order, none twice, and the counter is one past the last.
C1_IdsInRegistrationOrder ==
    /\ \A k \in 1..Len(idLog) : idLog[k] = k
    /\ nextVolumeID = Len(idLog) + 1
    /\ \A v \in 1..Len(heap) : heap[v].volumeID \in 0..Len(idLog)

\* Three registrations, the first two undone before the third: the only
\* volume left has ID 3.
C1_Witness ==
    /\ Len(idLog) = 3
    /\ Len(volumes) = 1
    /\ heap[volumes[1]].volumeID = 3
    /\ call.op \in MountOps \cup {"RegisterVolume"}

\* A scan of /dev has mounted a system volume at some point.
BootScanSucceeded ==
    \E v \in 1..Len(heap) : heap[v].name = "system" /\ heap[v].volumeID # 0

\* C2: after MountSystemVolume has mounted a device as "system", the system
\* volume slot holds that volume, the slot is non-null from then on and
\* SystemVolume() returns instead of failing its assertion.
C2_SystemVolumeSetByScan ==
    /\ (call.op = "MountSystemVolume" /\ call.vol # NULL)
          => systemVolume = call.vol
    /\ BootScanSucceeded => systemVolume # NULL
    /\ (call.op = "SystemVolume" /\ BootScanSucceeded)
          => call.ret # AssertionFailed

\* C3 as stated: a Mount that ends in VolumeErrorMisc leaves the volume
\* sequence, both counters and the system volume slot as they were.
C3_MiscLeavesRegistryUnchanged ==
    [][(call'.op \in MountOps /\ call'.ret = VolumeErrorMisc)
          => RegNext = Reg]_vars

\* C3 as amended: a Mount that ends in VolumeErrorMisc leaves the volumes,
\* the volume sequence, nextVolumeID and the system volume slot as they
\* were; the suffix counter is unchanged when a name was supplied and is
\* one more when it was omitted (the synthesized name is consumed).
C3_MiscConsumesOnlySuffix ==
    [][(call'.op \in MountOps /\ call'.ret = VolumeErrorMisc)
          => /\ heap' = heap
             /\ volumes' = volumes
             /\ nextVolumeID' = nextVolumeID
             /\ systemVolume' = systemVolume
             /\ call'.name # NoName => nextVolumeName' = nextVolumeName
             /\ call'.name = NoName => nextVolumeName' = nextVolumeName + 1
             /\ call'.vol = NULL]_vars

\* A Mount without a name has just failed in the driver, in a registry that
\* holds a volume: the first synthesized name is gone.
C3_Witness ==
    /\ call.op = "MountWith"
    /\ call.ret = VolumeErrorMisc
    /\ call.name = NoName
    /\ nextVolumeName = 1
    /\ volumes # <<>>

\* C4 as stated: a volume has a non-zero ID exactly when it is in the
\* registry sequence.
C4_IdIffRegistered ==
    \A v \in 1..Len(heap) : heap[v].volumeID # 0 <=> Registered(v)

\* C4 as amended: a volume in the registry sequence has a non-zero ID, and
\* a step changes the ID of no volume that is outside the sequence after
\* it: the volume UnregisterVolume or Unmount removes keeps its ID.
C4_IdSetAndKept ==
    /\ [](\A i \in 1..Len(volumes) : heap[volumes[i]].volumeID # 0)
    /\ [][\A v \in 1..Len(heap) :
             (\A i \in 1..Len(volumes') : volumes'[i] # v)
                => heap'[v].volumeID = heap[v].volumeID]_vars

\* A volume has just been removed and still carries its ID.
C4_Witness ==
    /\ call.op \in {"UnregisterVolume", "Unmount"}
    /\ call.ret = VolumeErrorNone
    /\ ~Registered(call.vol)
    /\ heap[call.vol].volumeID # 0

\* C5: on a node that is not a character device both Mount overloads return
\* VolumeErrorNotDevice, call neither the identification service nor the
\* driver, and leave the volumes, the sequence and the counters unchanged.
C5_NotDeviceRejected ==
    \A device \in Devices, name \in NameArgs :
        ~device.isChar =>
            /\ Mount(Reg, device, name).ret = VolumeErrorNotDevice
            /\ Mount(Reg, device, name).s = Reg
            /\ Consulted(Mount(Reg, device, name).ev) = {}
            /\ \A driver \in DriverSet :
                  /\ MountWith(Reg, device, driver, name).ret
                        = VolumeErrorNotDevice
                  /\ MountWith(Reg, device, driver, name).s = Reg
                  /\ Consulted(MountWith(Reg, device, driver, name).ev) = {}

\* Mount has just rejected a node in a registry that holds a volume.
C5_Witness ==
    /\ call.op = "Mount"
    /\ call.ret = VolumeErrorNotDevice
    /\ volumes # <<>>

\* C6: on a character device that no driver identifies, Mount(device, name)
\* returns VolumeErrorInvalidFilesystem and leaves the volumes, the
\* sequence and both counters unchanged, with or without a name.
C6_NoDriverRejected ==
    \A device \in Devices, name \in NameArgs :
        (device.isChar /\ IdentifyFilesystem(device) = NoDriver) =>
            /\ Mount(Reg, device, name).ret = VolumeErrorInvalidFilesystem
            /\ Mount(Reg, device, name).s = Reg
            /\ \A k \in 1..Len(Mount(Reg, device, name).ev) :
                  Mount(Reg, device, name).ev[k][1] # "driver.Mount"

\* A Mount without a name has just failed for want of a driver, after a
\* synthesized name had been handed out.
C6_Witness ==
    /\ call.op = "Mount"
    /\ call.ret = VolumeErrorInvalidFilesystem
    /\ call.name = NoName
    /\ nextVolumeName = 1

\* C7: Unmount of a name that no registered volume has returns
\* VolumeErrorVolumeNotFound and changes nothing.
C7_UnmountMiss ==
    \A n \in LookupNames :
        Matches(n) = {} =>
            /\ Unmount(Reg, n).ret = VolumeErrorVolumeNotFound
            /\ Unmount(Reg, n).s = Reg

\* Unmount has just missed in a registry that holds volumes of other names.
C7_Witness ==
    /\ call.op = "Unmount"
    /\ call.ret = VolumeErrorVolumeNotFound
    /\ volumes # <<>>
    /\ Matches(call.name[1]) = {}

\* C8: FindVolume(name) returns the volume at the first position of the
\* sequence whose mount name is name, none if there is no such position,
\* and the call changes nothing.
C8_FindFirstMatch ==
    /\ [](\A n \in LookupNames :
            /\ Matches(n) = {} => FindVolume(Reg, n) = NULL
            /\ Matches(n) # {} =>
                  \E i \in Matches(n) :
                     /\ \A j \in Matches(n) : i <= j
                     /\ FindVolume(Reg, n) = volumes[i])
    /\ [][call'.op = "FindVolume"
            => /\ RegNext = Reg
               /\ call'.vol = FindVolume(Reg, call'.name[1])]_vars

\* FindVolume has just returned the first of two volumes of the same name.
C8_Witness ==
    /\ call.op = "FindVolume"
    /\ Len(volumes) = 2
    /\ volumes[1] # volumes[2]
    /\ Matches(call.name[1]) = {1, 2}
    /\ call.vol = volumes[1]

\* C9: a successful Mount under a name no volume has makes FindVolume
\* return the new volume, which is a new object with an ID above every
\* earlier one; Unmount of the only volume of a name makes FindVolume
\* return none.
C9_RoundTrip ==
    [][/\ \A n \in Names :
             (/\ call'.op \in MountOps
              /\ call'.ret = VolumeErrorNone
              /\ call'.name = Named(n)
              /\ FindVolume(Reg, n) = NULL)
                => /\ FindVolume(RegNext, n) = call'.vol
                   /\ call'.vol = Len(heap) + 1
                   /\ \A v \in 1..Len(heap) :
                         heap[v].volumeID < heap'[call'.vol].volumeID
       /\ \A n \in LookupNames :
             (/\ call'.op = "Unmount"
              /\ call'.name = Named(n)
              /\ Cardinality(Matches(n)) = 1)
                => /\ call'.ret = VolumeErrorNone
                   /\ FindVolume(RegNext, n) = NULL]_vars

\* "x" has been mounted, unmounted and mounted again: FindVolume returns the
\* second volume, the first is out of the registry with a smaller ID.
C9_Witness ==
    /\ call.op \in MountOps
    /\ call.ret = VolumeErrorNone
    /\ call.name = Named("x")
    /\ FindVolume(Reg, "x") = call.vol
    /\ \E w \in 1..Len(heap) :
          /\ w # call.vol
          /\ heap[w].name = "x"
          /\ ~Registered(w)
          /\ heap[w].volumeID < heap[call.vol].volumeID

\* C10: the k-th Mount without a name that reaches the driver (k from 0)
\* passes it "volume<k>"; the suffix counter is the number of names handed
\* out, and no two of these mounts get the same name.
C10_SyntheticNames ==
    /\ nextVolumeName = Len(synthLog)
    /\ \A k \in 1..Len(synthLog) : synthLog[k] = "volume" \o ToString(k - 1)
    /\ \A j, k \in 1..Len(synthLog) : j # k => synthLog[j] # synthLog[k]

\* Two mounts without a name with an unmount in between: "volume0" is out
\* of the registry, "volume1" is in it.
C10_Witness ==
    /\ synthLog = <<"volume0", "volume1">>
    /\ Matches("volume0") = {}
    /\ Matches("volume1") # {}
    /\ \E v \in 1..Len(heap) : heap[v].name = "volume0"

\* An entry of /dev that the scan mounts: it resolves to a character device
\* that a driver identifies and whose driver makes a volume of it.
Mountable(ent) ==
    /\ ent # NoNode
    /\ ent.isChar
    /\ IdentifyFilesystem(ent) # NoDriver
    /\ ent.yields \in {"bare", "node"}

\* The (1-based) positions of the mountable entries of a directory.
MountablePositions(dev) == {i \in 1..Len(dev) : Mountable(dev[i])}

\* The (0-based) directory indices an operation passed to ReadDir or FindDir.
IndicesRead(ev) ==
    {ev[k][2] : k \in {j \in 1..Len(ev) : ev[j][1] \in {"ReadDir", "FindDir"}}}

\* C11: MountSystemVolume reads /dev in increasing index order, mounts as
\* "system" the first entry that is a character device, is identified and
\* whose mount succeeds, and returns without reading any later entry; the
\* entries before it register nothing.
C11_ScanStopsAtFirstMount ==
    \A dev \in DevDirs :
        LET r == MountSystemVolume(Reg, dev)
            reads == SelectEv(r.ev, "ReadDir")
        IN  /\ \A k \in 1..Len(reads) : reads[k][2] = k - 1
            /\ MountablePositions(dev) # {} =>
                 \E m \in MountablePositions(dev) :
                    /\ \A j \in MountablePositions(dev) : m <= j
                    /\ r.ret = VolumeErrorNone
                    /\ r.vol = Len(heap) + 1
                    /\ r.s.heap = Append(heap,
                          [name |-> "system", volumeID |-> nextVolumeID,
                           mountPoint |-> IF dev[m].yields = "node"
                                          THEN "root" ELSE "null"])
                    /\ r.s.volumes = Append(volumes, r.vol)
                    /\ r.s.nextVolumeID = nextVolumeID + 1
                    /\ r.s.nextVolumeName = nextVolumeName
                    /\ IndicesRead(r.ev) = 0..(m - 1)
                    /\ Len(SelectEv(r.ev, "SetVolumeID")) = 1

\* The scan has just mounted the second entry it read, in a registry that
\* held another volume before.
C11_Witness ==
    /\ call.op = "MountSystemVolume"
    /\ call.ret = VolumeErrorNone
    /\ call.reads = 2
    /\ call.vol = 2
    /\ Len(volumes) = 2
    /\ heap[call.vol].name = "system"

\* C12: when no entry of /dev is a character device that a driver
\* identifies, MountSystemVolume returns normally, the system volume slot
\* stays unset, no volume is added and both counters are unchanged.
C12_ScanWithoutDevice ==
    \A dev \in DevDirs :
        (\A i \in 1..Len(dev) :
            dev[i] = NoNode \/ ~dev[i].isChar
               \/ IdentifyFilesystem(dev[i]) = NoDriver)
          => LET r == MountSystemVolume(Reg, dev)
             IN  /\ r.ret = VolumeErrorNone
                 /\ r.vol = NULL
                 /\ r.s = Reg
                 /\ r.s.systemVolume = NULL
                 /\ SelectEv(r.ev, "driver.Mount") = <<>>
                 /\ Len(SelectEv(r.ev, "ReadDir")) = Len(dev) + 1

\* The scan has just read a whole directory of three entries and mounted
\* nothing: no volume is named "system".
C12_Witness ==
    /\ call.op = "MountSystemVolume"
    /\ call.ret = VolumeErrorNone
    /\ call.vol = NULL
    /\ call.reads = 4
    /\ Matches("system") = {}
    /\ systemVolume = NULL
    /\ ~aborted

ErrorCodes == {VolumeErrorMisc, VolumeErrorNotDevice,
               VolumeErrorInvalidFilesystem, VolumeErrorVolumeNotFound}

\* An operation that returns an error code has called the log sink last.
LoggedIfFailed(r) ==
    r.ret \in ErrorCodes
       => /\ r.ev # <<>>
          /\ r.ev[Len(r.ev)][1] = "Log::Error"

\* C13: every failure of Mount (either overload), Unmount and
\* UnregisterVolume calls the log sink with an error message before the
\* error code is returned.
C13_FailuresLogged ==
    /\ \A device \in Devices, name \in NameArgs :
          /\ LoggedIfFailed(Mount(Reg, device, name))
          /\ \A driver \in DriverSet :
                LoggedIfFailed(MountWith(Reg, device, driver, name))
    /\ \A n \in LookupNames : LoggedIfFailed(Unmount(Reg, n))
    /\ \A v \in 1..Len(heap) : LoggedIfFailed(UnregisterVolume(Reg, v))

\* C14: with RegisterVolume run by two contexts at once, no two volumes of
\* the sequence share an ID and every volume whose registration has
\* completed is in the sequence.
C14_ConcurrentRegistration ==
    /\ \A i, j \in 1..Len(volumes) :
          volumes[i] # volumes[j]
             => heap[volumes[i]].volumeID # heap[volumes[j]].volumeID
    /\ \A t \in Contexts : \A v \in ctx[t].done : Registered(v)

\* A sequence without its i-th entry.
WithoutPosition(list, i) ==
    SubSeq(list, 1, i - 1) \o SubSeq(list, i + 1, Len(list))

\* The positions of the registry that hold the volume v.
PositionsOf(v) == {i \in 1..Len(volumes) : volumes[i] = v}

\* C15: UnregisterVolume(volume) removes the first entry that is that very
\* volume and nothing else: the other entries keep their order, the volumes,
\* both counters and the system volume slot are unchanged; a volume that is
\* not in the sequence gives VolumeErrorVolumeNotFound and no change.
C15_UnregisterByIdentity ==
    \A v \in 1..Len(heap) :
        LET r == UnregisterVolume(Reg, v)
        IN  IF PositionsOf(v) = {}
            THEN r.ret = VolumeErrorVolumeNotFound /\ r.s = Reg
            ELSE \E i \in PositionsOf(v) :
                    /\ \A j \in PositionsOf(v) : i <= j
                    /\ r.ret = VolumeErrorNone
                    /\ r.s = [Reg EXCEPT !.volumes = WithoutPosition(@, i)]

\* UnregisterVolume has just removed the second of two distinct volumes of
\* the same name: the first one is still registered.
C15_Witness ==
    /\ call.op = "UnregisterVolume"
    /\ call.ret = VolumeErrorNone
    /\ ~Registered(call.vol)
    /\ Len(volumes) = 1
    /\ volumes[1] < call.vol
    /\ heap[volumes[1]].name = heap[call.vol].name

\* C16: when several registered volumes have the name, Unmount(name)
\* succeeds and removes only the first of them in sequence order, the one
\* FindVolume(name) returned; the rest keep their order, and FindVolume(name)
\* then returns the next one.
C16_UnmountFirstOfSeveral ==
    \A n \in LookupNames :
        Cardinality(Matches(n)) >= 2 =>
            LET r == Unmount(Reg, n)
            IN  \E i, k \in Matches(n) :
                   /\ i < k
                   /\ \A j \in Matches(n) : i <= j /\ (j # i => k <= j)
                   /\ r.ret = VolumeErrorNone
                   /\ r.vol = FindVolume(Reg, n)
                   /\ r.vol = volumes[i]
                   /\ r.s = [Reg EXCEPT !.volumes = WithoutPosition(@, i)]
                   /\ FindVolume(r.s, n) = volumes[k]

\* Unmount has just removed the first of two distinct volumes of one name:
\* the other is still registered and is the one FindVolume returns.
C16_Witness ==
    /\ call.op = "Unmount"
    /\ call.ret = VolumeErrorNone
    /\ heap[call.vol].name = call.name[1]
    /\ ~Registered(call.vol)
    /\ Matches(call.name[1]) # {}
    /\ FindVolume(Reg, call.name[1]) > call.vol

\* C17 as stated: whatever operations are called, RegisterVolume on a
\* registered volume included, no volume is in the sequence twice and the
\* ID of a registered volume is not assigned again.
C17_RegisteredOnce ==
    /\ [](\A i, j \in 1..Len(volumes) : i # j => volumes[i] # volumes[j])
    /\ [][\A v \in 1..Len(heap) :
             Registered(v) => heap'[v].volumeID = heap[v].volumeID]_vars

\* C18: the explicit-driver Mount on a character device that the driver
\* does not identify ends in a failed assertion, not in an error code; the
\* driver's Mount has not been called, the log sink neither, and the
\* volumes, the sequence and both counters are as before.
C18_MismatchAsserts ==
    /\ \A device \in Devices, driver \in DriverSet, name \in NameArgs :
          (device.isChar /\ ~Identify(driver, device)) =>
              LET r == MountWith(Reg, device, driver, name)
              IN  /\ r.ret = AssertionFailed
                  /\ r.ret \notin ErrorCodes
                  /\ r.s = Reg
                  /\ SelectEv(r.ev, "driver.Mount") = <<>>
                  /\ SelectEv(r.ev, "Log::Error") = <<>>
    /\ aborted <=> call.ret = AssertionFailed

\* The explicit-driver Mount has just aborted on a mismatch, in a registry
\* that holds a volume.
C18_Witness ==
    /\ call.op = "MountWith"
    /\ call.ret = AssertionFailed
    /\ aborted
    /\ volumes # <<>>

C20_LogBufferInBounds ==
    logBuf.allocated =>
        /\ 0 <= logBuf.pos
        /\ logBuf.pos <= logBuf.size
        /\ logBuf.size <= logBufferMaxSize
        /\ 0 <= logBuf.copyAt
        /\ logBuf.copyAt + logBuf.copyLen <= logBuf.size

====
